---- MODULE Spec2Model ----
(***************************************************************************)
(* The Go WASM runtime module of wagon (modules/go.go): the handle table   *)
(* (g.values, g.valueIndex), the slot codec (storeValue / loadValue) and   *)
(* the syscall/js host functions, over a byte-addressed guest memory.      *)
(*                                                                         *)
(* A host value (Go interface{}) is a record [k, b, e]: k is the dynamic   *)
(* type, b a tuple of numbers (bytes of a string, the ref of a Value, ...) *)
(* and e a tuple of nested host values (the datum of a Value, the elements *)
(* of a jsArray, the entries of a jsObject).                               *)
(*                                                                         *)
(* One Go instance drives the table at a time; NewGo starts the next       *)
(* session.  The clock, random and output functions touch neither the      *)
(* table nor the codec and are left out.                                   *)
(***************************************************************************)
EXTENDS Integers, Sequences, FiniteSets, TLC

VARIABLES
    mem,         \* guest linear memory: [0..MemSize-1 -> 0..255]
    values,      \* g.values: the map ref -> Value (the package-level map)
    valueIndex,  \* g.valueIndex of the live Go instance
    status,      \* "running" | "terminated" (proc.Terminate) | "panicked"
    session,     \* number of NewGo calls so far
    calls,       \* number of operations performed (bounded by MaxCalls)
    allocated,   \* handles assigned by the live session, in order
    last         \* the last operation: its inputs, pre-state and result

vars == <<mem, values, valueIndex, status, session, calls, allocated, last>>

----------------------------------------------------------------------------
(* Bounds of the model *)

MaxCalls == 3
MaxSessions == 2
MaxHalf == 1
MemSize == 80

(* Program constants *)

jsValueNaN == 0
jsValueUndefined == 1
jsValueNull == 2
jsValueTrue == 3
jsValueFalse == 4
jsValueGlobal == 5
jsValueMemory == 6
jsVsGo == 7
nanHead == 2146959360
typeFlagString == 1
typeFlagSymbol == 2
typeFlagFunction == 3

\* stands for every uint32 >= 2^31 (only ever compared with the table size)
BigWord == 128 * 16777216 - 1

----------------------------------------------------------------------------
(* Host values *)

D(k, b, e) == [k |-> k, b |-> b, e |-> e]

Nil == D("nil", <<>>, <<>>)
EmptyStruct == D("struct{}", <<>>, <<>>)
nan == EmptyStruct
undefined == EmptyStruct
Bool(x) == D("bool", <<IF x THEN 1 ELSE 0>>, <<>>)
IntD(n) == D("int", <<n>>, <<>>)
\* a float64 is carried as a count of halves h (the number h/2), NaN as no number
Float(h) == D("float64", <<h>>, <<>>)
NaNFloat == D("float64", <<>>, <<>>)
IsNaN(d) == d.b = <<>>
Str(bytes) == D("string", bytes, <<>>)
Func(id) == D("func", <<id>>, <<>>)
Entry(key, d) == D("entry", key, <<d>>)
jsObject(entries) == D("jsObject", <<>>, entries)
jsArray(elems) == D("jsArray", <<>>, elems)
jsInt8Array(ints) == D("jsInt8Array", ints, <<>>)

\* type Value struct { ref ref; v interface{} }
Value(r, d) == D("Value", <<r>>, <<d>>)
Ref(V) == V.b[1]
Und(V) == V.e[1]
ZeroValue == Value(0, Nil)

\* ASCII
S_Array == <<65, 114, 114, 97, 121>>
S_Int8Array == <<73, 110, 116, 56, 65, 114, 114, 97, 121>>
S_message == <<109, 101, 115, 115, 97, 103, 101>>
S_hi == <<104, 105>>
S_0 == <<48>>

jsGlobal == jsObject(<<Entry(S_Array, jsArray(<<>>)),
                       Entry(S_Int8Array, jsInt8Array(<<>>))>>)

\* the formatted text of the error is carried as the ref of the offending Value
newJSError(v) == jsObject(<<Entry(S_message, Str(<<Ref(v)>>))>>)

defaultValues ==
    [r \in 0..7 |->
        CASE r = jsValueNaN -> Value(jsValueNaN, nan)
          [] r = jsValueUndefined -> Value(jsValueUndefined, undefined)
          [] r = jsValueNull -> Value(jsValueNull, Nil)
          [] r = jsValueTrue -> Value(jsValueTrue, Bool(TRUE))
          [] r = jsValueFalse -> Value(jsValueFalse, Bool(FALSE))
          [] r = jsValueGlobal -> Value(jsValueGlobal, jsGlobal)
          [] r = jsValueMemory -> Value(jsValueMemory, IntD(jsValueMemory))
          [] OTHER -> Value(jsVsGo, IntD(jsVsGo))]

\* o[v] on a jsObject: the entry of that key, nil when there is none
jsObjectGet(o, name) ==
    IF \E i \in 1..Len(o.e) : o.e[i].b = name
    THEN (o.e[CHOOSE i \in 1..Len(o.e) : o.e[i].b = name]).e[1]
    ELSE Nil

\* v.(getter): only jsObject has a Get method
IsGetter(d) == d.k = "jsObject"

\* v.(newer): jsArray and jsInt8Array have a New method
IsNewer(d) == d.k \in {"jsArray", "jsInt8Array"}

\* g.values[r] of a Go map: the zero Value when the key is absent
MapGet(vals, r) == IF r \in DOMAIN vals THEN vals[r] ELSE ZeroValue

MapPut(vals, r, V) ==
    [k \in (DOMAIN vals) \cup {r} |-> IF k = r THEN V ELSE vals[k]]

MapLen(vals) == Cardinality(DOMAIN vals)

----------------------------------------------------------------------------
(* Guest memory *)

\* proc.BufferAt(offset, length): the span must lie inside the memory
InBounds(off, len) == off >= 0 /\ len >= 0 /\ off <= MemSize /\ len <= MemSize - off

Rd(m, a) == IF a \in DOMAIN m THEN m[a] ELSE 0

WriteBytes(m, addr, bs) ==
    [a \in DOMAIN m |->
        IF a >= addr /\ a < addr + Len(bs) THEN bs[a - addr + 1] ELSE m[a]]

\* binary.LittleEndian.PutUint32
LE32(w) == <<w % 256, (w \div 256) % 256, (w \div 65536) % 256, (w \div 16777216) % 256>>

\* binary.LittleEndian.Uint32
U32(m, a) ==
    IF Rd(m, a + 3) >= 128 THEN BigWord
    ELSE Rd(m, a) + 256 * Rd(m, a + 1) + 65536 * Rd(m, a + 2) + 16777216 * Rd(m, a + 3)

\* binary.LittleEndian.Uint64, as its two 32-bit halves
U64(m, a) == [lo |-> U32(m, a), hi |-> U32(m, a + 4)]

Panic(st) == [st EXCEPT !.status = "panicked"]
Running(st) == st.status = "running"

setUInt8(st, addr, v) ==
    IF ~Running(st) THEN st
    ELSE IF ~InBounds(addr, 8) THEN Panic(st)
    ELSE [st EXCEPT !.mem = WriteBytes(st.mem, addr, <<v % 256>>)]

setUInt32(st, addr, v) ==
    IF ~Running(st) THEN st
    ELSE IF ~InBounds(addr, 8) THEN Panic(st)
    ELSE [st EXCEPT !.mem = WriteBytes(st.mem, addr, LE32(v))]

setRef(st, addr, r) == setUInt32(st, addr, r)

setInt32(st, addr, v) == setUInt32(st, addr, v)

setUInt64(st, addr, lo, hi) ==
    IF ~Running(st) THEN st
    ELSE IF ~InBounds(addr, 8) THEN Panic(st)
    ELSE [st EXCEPT !.mem = WriteBytes(st.mem, addr, LE32(lo) \o LE32(hi))]

setInt64(st, addr, n) == setUInt64(st, addr, n, 0)

\* uint64(v) of a float64 is the numeric conversion: the number truncated
setFloat64(st, addr, d) == setUInt64(st, addr, d.b[1] \div 2, 0)

getRef(m, addr) == U32(m, addr)

getInt64(m, addr) == U64(m, addr)

\* ba.BufferAt(offset, length) of two int64 read from the frame
loadSlice(m, sp) ==
    LET off == getInt64(m, sp)
        len == getInt64(m, sp + 8)
    IN  IF off.hi = 0 /\ len.hi = 0 /\ off.lo <= MemSize /\ len.lo <= MemSize
           /\ InBounds(off.lo, len.lo)
        THEN [ok |-> TRUE, off |-> off.lo, len |-> len.lo]
        ELSE [ok |-> FALSE, off |-> 0, len |-> 0]

BytesAt(m, off, len) == [i \in 1..len |-> m[off + i - 1]]

\* copy(buf, v): min(len(buf), len(v)) bytes
setSlice(st, sp, bytes) ==
    LET s == loadSlice(st.mem, sp)
        n == IF s.len < Len(bytes) THEN s.len ELSE Len(bytes)
    IN  IF ~Running(st) THEN st
        ELSE IF ~s.ok THEN Panic(st)
        ELSE [st EXCEPT !.mem = WriteBytes(st.mem, s.off, SubSeq(bytes, 1, n))]

loadString(m, sp) ==
    LET s == loadSlice(m, sp)
    IN  IF s.ok THEN [ok |-> TRUE, s |-> BytesAt(m, s.off, s.len)]
        ELSE [ok |-> FALSE, s |-> <<>>]

----------------------------------------------------------------------------
(* The handle table and the slot codec *)

\* NewGo: valueIndex: ref(len(defaultValues))
InitialValueIndexOffByOne(vals) == MapLen(vals) - 1

InitialValueIndex(vals) == MapLen(vals)

\* g.valueIndex++
NextValueIndexStuck(r) == r

NextValueIndex(r) == r + 1

\* reflect.TypeOf(v).Kind() of the argument of storeValue, as a type flag
TypeFlag(v) ==
    IF v.k = "string" THEN typeFlagString
    ELSE IF v.k = "func" THEN typeFlagFunction
    ELSE 0

\* the tail of storeValue: the NaN head with the type flag, then the ref
storeTagged(st, addr, v, r) ==
    setRef(setUInt32(st, addr + 4, nanHead + TypeFlag(v)), addr, r)

\* the default case of storeValue: g.values[r] = Value{ref: r, v: tv}
allocate(st, tv) ==
    [st EXCEPT !.values = MapPut(st.values, st.valueIndex, Value(st.valueIndex, tv)),
               !.valueIndex = NextValueIndex(st.valueIndex),
               !.allocated = Append(st.allocated, st.valueIndex)]

storeValue(st, addr, v) ==
    IF ~Running(st) THEN st
    ELSE IF v.k = "nil"
    THEN setUInt32(setUInt32(st, addr + 4, nanHead), addr, jsValueNull)
    ELSE IF v.k = "float64"
    THEN IF IsNaN(v)
         THEN setUInt32(setUInt32(st, addr + 4, nanHead), addr, 0)
         ELSE storeTagged(setFloat64(st, addr, v), addr, v, 0)
    ELSE IF v.k = "bool"
    THEN setUInt32(setUInt32(st, addr + 4, nanHead), addr,
                   IF v.b[1] = 1 THEN jsValueTrue ELSE jsValueFalse)
    ELSE IF v.k = "Value"
    THEN IF v = MapGet(st.values, jsValueUndefined) THEN setInt32(st, addr, 0)
         ELSE IF v = MapGet(st.values, jsValueNull) THEN setInt32(st, addr, 1)
         ELSE storeTagged(st, addr, v, Ref(v))
    ELSE storeTagged(allocate(st, v), addr, v, st.valueIndex)

loadValue(vals, m, addr) ==
    LET r == getRef(m, addr)
    IN  IF r > MapLen(vals) THEN MapGet(vals, jsValueUndefined) ELSE MapGet(vals, r)

loadSliceOfValues(vals, m, addr) ==
    LET a == getInt64(m, addr)
        n == getInt64(m, addr + 8)
    IN  IF n.hi = 0 /\ n.lo <= MemSize
           /\ (n.lo = 0 \/ (a.lo <= MemSize
                            /\ \A i \in 0..(n.lo - 1) : InBounds(a.lo + 4 * i, 8)))
        THEN [ok |-> TRUE,
              array |-> [i \in 1..n.lo |-> MapGet(vals, getRef(m, a.lo + 4 * (i - 1)))]]
        ELSE [ok |-> FALSE, array |-> <<>>]

----------------------------------------------------------------------------
(* Capability adapters *)

\* jsArray.New: jsArray(args); jsInt8Array.New: v.(int8) of every argument, which
\* panics on the Values that loadSliceOfValues hands over
New(n, args) ==
    IF n.k = "jsArray" THEN [ok |-> TRUE, v |-> jsArray(args)]
    ELSE IF \A i \in 1..Len(args) : args[i].k = "int8"
    THEN [ok |-> TRUE, v |-> jsInt8Array([i \in 1..Len(args) |-> args[i].b[1]])]
    ELSE [ok |-> FALSE, v |-> Nil]

----------------------------------------------------------------------------
(* Host functions: st is the Go instance with the guest memory, sp the frame *)

exportValuePrepareString(st, sp) ==
    LET str == loadString(st.mem, sp + 8)
    IN  IF ~str.ok THEN Panic(st)
        ELSE setInt64(storeValue(st, sp + 16, Str(str.s)), sp + 24, Len(str.s))

exportValueLoadString(st, sp) ==
    LET str == loadValue(st.values, st.mem, sp + 8)
    IN  IF Und(str).k # "string" THEN Panic(st)
        ELSE setSlice(st, sp + 8, Und(str).b)

exportStringVal(st, sp) ==
    LET s == loadString(st.mem, sp + 8)
    IN  IF ~s.ok THEN Panic(st)
        ELSE storeValue(st, sp + 24, Str(s.s))

\* the failure path sets the flag to 1 and stores no error object
exportValueNewSilent(st, sp) ==
    LET v == loadValue(st.values, st.mem, sp + 8)
        args == loadSliceOfValues(st.values, st.mem, sp + 16)
        made == New(Und(v), args.array)
    IN  IF ~args.ok THEN Panic(st)
        ELSE IF ~IsNewer(Und(v)) THEN setUInt8(st, sp + 48, 1)
        ELSE IF ~made.ok THEN Panic(st)
        ELSE setUInt8(storeValue(st, sp + 40, made.v), sp + 48, 1)

exportValueNew(st, sp) ==
    LET v == loadValue(st.values, st.mem, sp + 8)
        args == loadSliceOfValues(st.values, st.mem, sp + 16)
        made == New(Und(v), args.array)
    IN  IF ~args.ok THEN Panic(st)
        ELSE IF ~IsNewer(Und(v))
        THEN setUInt8(storeValue(st, sp + 40, newJSError(v)), sp + 48, 0)
        ELSE IF ~made.ok THEN Panic(st)
        ELSE setUInt8(storeValue(st, sp + 40, made.v), sp + 48, 1)

exportValueCall(st, sp) ==
    LET v == loadValue(st.values, st.mem, sp + 8)
        f == loadString(st.mem, sp + 16)
        args == loadSliceOfValues(st.values, st.mem, sp + 32)
    IN  IF ~f.ok THEN Panic(st)
        ELSE IF ~IsGetter(Und(v)) THEN [st EXCEPT !.status = "terminated"]
        ELSE IF ~args.ok THEN Panic(st)
        ELSE st

exportValueGet(st, sp) ==
    LET v == loadValue(st.values, st.mem, sp + 8)
        s == loadString(st.mem, sp + 16)
    IN  IF ~s.ok THEN Panic(st)
        ELSE IF ~IsGetter(Und(v)) THEN [st EXCEPT !.status = "terminated"]
        ELSE storeValue(st, sp + 32, jsObjectGet(Und(v), s.s))

exportExit(st, sp) == [st EXCEPT !.status = "terminated"]

----------------------------------------------------------------------------
(* The guest side: what it writes into its memory before a call *)

\* the data area of the guest, above the frames
DataBase == MemSize - 16

SPs == {0}
SlotAddrs == {40}

GuestPut32(m, a, w) == WriteBytes(m, a, LE32(w))
GuestPut64(m, a, lo, hi) == WriteBytes(m, a, LE32(lo) \o LE32(hi))

\* a slice or string header: pointer and length, 8 bytes each
GuestSpan(m, a, off, len) == GuestPut64(GuestPut64(m, a, off, 0), a + 8, len, 0)

\* a contiguous run of 4-byte refs
GuestRefs(m, a, hs) ==
    WriteBytes(m, a, [i \in 1..(4 * Len(hs)) |->
                        LE32(hs[((i - 1) \div 4) + 1])[((i - 1) % 4) + 1]])

\* a string in the data area and its header at hdr
GuestString(m, hdr, bytes, len) ==
    GuestSpan(WriteBytes(m, DataBase, bytes), hdr, DataBase, len)

ZeroMem == [a \in 0..(MemSize - 1) |-> 0]

----------------------------------------------------------------------------
(* State machine *)

NoDatum == D("none", <<>>, <<>>)

St == [mem |-> mem, values |-> values, valueIndex |-> valueIndex,
       status |-> status, allocated |-> allocated]

L(op, sp, pre) ==
    [op |-> op, sp |-> sp, h |-> 0, hw |-> 0, v |-> NoDatum, name |-> <<>>,
     args |-> <<>>, aaddr |-> 0, ret |-> NoDatum, rt |-> NoDatum, pre |-> pre]

Commit(st, l) ==
    /\ mem' = st.mem
    /\ values' = st.values
    /\ valueIndex' = st.valueIndex
    /\ status' = st.status
    /\ allocated' = st.allocated
    /\ calls' = calls + 1
    /\ session' = session
    /\ last' = l

CanCall == status = "running" /\ calls < MaxCalls

\* handles a guest passes as the target of a call: the global object, every
\* handle assigned so far and the first one beyond the table
GuestHandles == {jsValueGlobal} \cup (MapLen(defaultValues)..MapLen(values))

\* handles a guest asks loadValue for: a reserved one, the last one of the table
\* and the two beyond it
LookupHandles == {jsVsGo, MapLen(values) - 1, MapLen(values), MapLen(values) + 1}

Keep == 0 - 1

StoreInputs ==
    {Nil, NaNFloat, Bool(TRUE), Bool(FALSE), Str(S_hi), Func(1)}
    \cup {Float(h) : h \in 0..MaxHalf}
    \cup {values[r] : r \in {jsValueUndefined, jsValueNull}
                              \cup (MapLen(defaultValues)..(MapLen(values) - 1))}

Strings == {S_hi}
Names == {S_Array, S_Int8Array, S_message, S_0}
ArgLists == {[a |-> DataBase, hs |-> <<>>],
             [a |-> DataBase, hs |-> <<jsValueTrue, jsValueFalse>>],
             [a |-> MemSize - 4, hs |-> <<jsValueTrue>>]}

Init ==
    /\ mem = ZeroMem
    /\ values = defaultValues
    /\ valueIndex = InitialValueIndex(defaultValues)
    /\ status = "running"
    /\ session = 1
    /\ calls = 0
    /\ allocated = <<>>
    /\ last = L("NewGo", 0, [mem |-> ZeroMem, values |-> defaultValues,
                             valueIndex |-> InitialValueIndex(defaultValues),
                             status |-> "running", allocated |-> <<>>])

\* NewGo: values: defaultValues is the package-level map itself, not a copy
NewGo ==
    /\ session < MaxSessions
    /\ calls < MaxCalls
    /\ mem' = ZeroMem
    /\ values' = values
    /\ valueIndex' = InitialValueIndex(values)
    /\ status' = "running"
    /\ allocated' = <<>>
    /\ session' = session + 1
    /\ calls' = calls + 1
    /\ last' = L("NewGo", 0, St)

StoreValue ==
    /\ CanCall
    /\ \E addr \in SlotAddrs, v \in StoreInputs :
          Commit(storeValue(St, addr, v), [L("storeValue", addr, St) EXCEPT !.v = v])

LoadValue ==
    /\ CanCall
    /\ \E addr \in SlotAddrs, h \in LookupHandles \cup {Keep} :
          LET st0 == IF h = Keep THEN St
                     ELSE [St EXCEPT !.mem = GuestPut32(mem, addr, h)]
              V == loadValue(st0.values, st0.mem, addr)
          IN  Commit(st0, [L("loadValue", addr, st0) EXCEPT
                              !.h = getRef(st0.mem, addr),
                              !.ret = V,
                              !.rt = IF h = Keep /\ last.op = "storeValue"
                                        /\ last.sp = addr
                                     THEN last.v ELSE NoDatum])

ExportStringVal ==
    /\ CanCall
    /\ \E sp \in SPs, b \in Strings, len \in {0, MemSize} :
          LET st0 == [St EXCEPT !.mem = GuestString(mem, sp + 8, b, Len(b) + len)]
          IN  Commit(exportStringVal(st0, sp),
                     [L("stringVal", sp, st0) EXCEPT !.name = b, !.aaddr = Len(b) + len])

ExportValuePrepareString ==
    /\ CanCall
    /\ \E sp \in SPs, b \in Strings, len \in {0, MemSize} :
          LET st0 == [St EXCEPT !.mem = GuestString(mem, sp + 8, b, Len(b) + len)]
          IN  Commit(exportValuePrepareString(st0, sp),
                     [L("valuePrepareString", sp, st0) EXCEPT
                         !.name = b, !.aaddr = Len(b) + len])

\* the frame of valueLoadString: the Value slot at sp+8 as the guest holds it (the
\* ref with the tag word storeValue gave it, or the bare ref), then the header of
\* the destination slice
ExportValueLoadString ==
    /\ CanCall
    /\ \E sp \in SPs, h \in GuestHandles, hw \in {nanHead + typeFlagString, 0} :
          LET st0 == [St EXCEPT !.mem =
                        GuestSpan(GuestPut64(mem, sp + 8, h, hw), sp + 16, DataBase + 8, 2)]
          IN  Commit(exportValueLoadString(st0, sp),
                     [L("valueLoadString", sp, st0) EXCEPT
                         !.h = h, !.hw = hw, !.aaddr = DataBase + 8,
                         !.v = loadValue(values, st0.mem, sp + 8)])

ExportValueGet ==
    /\ CanCall
    /\ \E sp \in SPs, h \in GuestHandles, name \in Names :
          LET st0 == [St EXCEPT !.mem =
                        GuestString(GuestPut64(mem, sp + 8, h, nanHead), sp + 16,
                                    name, Len(name))]
          IN  Commit(exportValueGet(st0, sp),
                     [L("valueGet", sp, st0) EXCEPT
                         !.h = h, !.name = name,
                         !.v = loadValue(values, st0.mem, sp + 8)])

ExportValueNew ==
    /\ CanCall
    /\ \E sp \in SPs, h \in GuestHandles, al \in ArgLists :
          LET st0 == [St EXCEPT !.mem =
                        GuestSpan(GuestRefs(GuestPut64(mem, sp + 8, h, nanHead),
                                            al.a, al.hs),
                                  sp + 16, al.a, Len(al.hs))]
          IN  Commit(exportValueNew(st0, sp),
                     [L("valueNew", sp, st0) EXCEPT
                         !.h = h, !.args = al.hs, !.aaddr = al.a,
                         !.v = loadValue(values, st0.mem, sp + 8)])

ExportValueCall ==
    /\ CanCall
    /\ \E sp \in SPs, h \in GuestHandles, hs \in {<<jsValueNull>>} :
          LET st0 == [St EXCEPT !.mem =
                        GuestSpan(GuestRefs(
                                    GuestString(GuestPut64(mem, sp + 8, h, nanHead),
                                                sp + 16, S_Array, Len(S_Array)),
                                    DataBase + 8, hs),
                                  sp + 32, DataBase + 8, Len(hs))]
          IN  Commit(exportValueCall(st0, sp),
                     [L("valueCall", sp, st0) EXCEPT
                         !.h = h, !.name = S_Array, !.args = hs,
                         !.aaddr = DataBase + 8,
                         !.v = loadValue(values, st0.mem, sp + 8)])

ExportExit ==
    /\ CanCall
    /\ \E sp \in SPs : Commit(exportExit(St, sp), L("wasmExit", sp, St))

Next ==
    \/ NewGo
    \/ StoreValue
    \/ LoadValue
    \/ ExportStringVal
    \/ ExportValuePrepareString
    \/ ExportValueLoadString
    \/ ExportValueGet
    \/ ExportValueNew
    \/ ExportValueCall
    \/ ExportExit

Spec == Init /\ [][Next]_vars

----------------------------------------------------------------------------
(* Properties *)

Reserved == 0..7

\* math.Float64bits of the number h/2 (h >= 0), as the 8 bytes of the slot
Float64bits(d) ==
    LET h == d.b[1]
        p == CHOOSE q \in 0..30 : 2^q <= h /\ h < 2^(q + 1)
        hi16 == (1022 + p) * 16 + (((h - 2^p) * 16) \div (2^p))
    IN  IF h = 0 THEN <<0, 0, 0, 0, 0, 0, 0, 0>>
        ELSE <<0, 0, 0, 0, 0, 0, hi16 % 256, hi16 \div 256>>

\* the datum a storeValue argument stands for
Underlying(v) == IF v.k = "Value" THEN Und(v) ELSE v

FlagOf(d) ==
    IF d.k = "string" THEN typeFlagString
    ELSE IF d.k = "func" THEN typeFlagFunction
    ELSE 0

\* the argument list of the last call lies inside the guest memory
ArgsInMemory == \A i \in 0..(Len(last.args) - 1) : InBounds(last.aaddr + 4 * i, 8)

\* C1: loadValue of a handle at or beyond the number of entries of the table
\* returns the undefined sentinel (the Value of handle 1).
C1_BeyondTableIsUndefined ==
    (last.op = "loadValue" /\ last.h >= MapLen(values))
        => last.ret = MapGet(values, jsValueUndefined)

\* C2: storeValue of a finite float64 leaves the IEEE-754 bit pattern of the
\* number in the slot and allocates no handle.
C2_FiniteFloatRawBits ==
    (last.op = "storeValue" /\ last.v.k = "float64" /\ ~IsNaN(last.v)
     /\ status = "running")
        => /\ BytesAt(mem, last.sp, 8) = Float64bits(last.v)
           /\ values = last.pre.values
           /\ valueIndex = last.pre.valueIndex

\* C3: storeValue of a Value held in the table followed by loadValue of the same
\* slot returns a Value with the handle of the one stored.
C3_RoundTrip ==
    (last.op = "loadValue" /\ last.rt.k = "Value"
     /\ \E r \in DOMAIN values : values[r] = last.rt)
        => Ref(last.ret) = Ref(last.rt)

\* C4: every encode that writes a tag word writes 0x7FF80000 OR'd with the type
\* flag of the underlying datum: 1 for a string, 3 for a function, whether raw or
\* wrapped in an existing Value, and 0 for everything else.
C4_TypeFlagOfDatum ==
    (last.op = "storeValue" /\ status = "running"
     /\ ~(last.v.k = "float64" /\ ~IsNaN(last.v))
     /\ last.v # MapGet(last.pre.values, jsValueUndefined)
     /\ last.v # MapGet(last.pre.values, jsValueNull))
        => U32(mem, last.sp + 4) = nanHead + FlagOf(Underlying(last.v))

\* C5: valueLoadString on the slot of a string Value, as storeValue encoded it
\* (handle >= 8, tag word 0x7FF80001), copies exactly the bytes of the string into
\* the destination span of the guest and changes no other byte.
C5_LoadStringCopies ==
    (last.op = "valueLoadString" /\ Und(last.v).k = "string"
     /\ last.h >= MapLen(defaultValues) /\ last.hw = nanHead + typeFlagString)
        => /\ status = "running"
           /\ BytesAt(mem, last.aaddr, Len(Und(last.v).b)) = Und(last.v).b
           /\ \A a \in DOMAIN mem :
                 (a < last.aaddr \/ a >= last.aaddr + Len(Und(last.v).b))
                    => mem[a] = last.pre.mem[a]

\* C6: valueGet with property name "0" on an array built by valueNew returns the
\* first argument of the construction and does not terminate the session.
C6_ArrayIndexGet ==
    (last.op = "valueGet" /\ Und(last.v).k = "jsArray" /\ last.name = S_0
     /\ Len(Und(last.v).e) >= 1)
        => /\ status = "running"
           /\ getRef(mem, last.sp + 32) = Ref(Und(last.v).e[1])

\* C7: the reserved handles 0..7 stay bound to their sentinels, and lookup of
\* each returns that sentinel, in every reachable state.
C7_ReservedStable ==
    /\ \A h \in Reserved :
          /\ h \in DOMAIN values
          /\ values[h] = defaultValues[h]
          /\ \A a \in SlotAddrs :
                loadValue(values, GuestPut32(mem, a, h), a) = defaultValues[h]
    /\ (last.op = "loadValue" /\ last.h \in Reserved)
          => last.ret = defaultValues[last.h]

C7_Witness ==
    /\ last.op = "loadValue"
    /\ last.h \in Reserved
    /\ MapLen(values) > MapLen(defaultValues)
    /\ Len(allocated) >= 1

\* C8: within a session every allocation writes the handle valueIndex, which is
\* >= 8, greater than every handle assigned before and not yet a key of the
\* table; no step changes or removes an entry of the table.
C8_AllocationMonotone ==
    [][/\ \A k \in DOMAIN values : k \in DOMAIN values' /\ values'[k] = values[k]
       /\ (allocated' # allocated /\ session' = session)
             => LET h == allocated'[Len(allocated')]
                IN  /\ allocated' = Append(allocated, h)
                    /\ h = valueIndex
                    /\ valueIndex' > h
                    /\ h >= MapLen(defaultValues)
                    /\ h \notin Reserved
                    /\ h \notin DOMAIN values
                    /\ h \in DOMAIN values'
                    /\ Ref(values'[h]) = h
                    /\ \A i \in 1..Len(allocated) : allocated[i] < h]_vars

C8_Witness ==
    /\ Len(allocated) >= 2
    /\ allocated[1] < allocated[2]
    /\ last.op = "storeValue"

C10_FreshTable ==
    last.op = "NewGo" => (DOMAIN values = Reserved /\ valueIndex = 8)

====
